---- MODULE Spec2Model ----
(***************************************************************************)
(* The account router of the banking demo (src/server/routers/account.ts)  *)
(* over the tables of src/lib/db/schema.ts.                                *)
(*                                                                         *)
(* Scheduling: Node runs the handlers on one thread.  better-sqlite3       *)
(* executes a statement synchronously, and a handler gives up the thread   *)
(* only at an `await`.  Each action below is the code between two awaits   *)
(* of one handler call; the db.transaction callback of fundAccount holds   *)
(* no await and is one action.                                             *)
(*                                                                         *)
(* A call is described by its input and by ctx.user, which                 *)
(* protectedProcedure guarantees.  Spec holds the calls whose input the    *)
(* zod schema of the procedure accepted; SpecRaw adds the fundAccount      *)
(* calls whose amount the schema refuses.                                  *)
(* Amounts and balances are whole numbers, which the REAL columns and the  *)
(* JavaScript numbers of the code hold exactly, so that `balance + amount` *)
(* is the exact sum for them.  The columns description and processedAt of  *)
(* a transaction and the fundingSource of a funding request are not read   *)
(* by any operation of the router and are left out.                        *)
(*                                                                         *)
(* The database starts as the tests seed it: one account of user 1 with a  *)
(* balance and two transactions inserted out of time order; the account's  *)
(* status is any of the three the column is documented to hold.            *)
(*                                                                         *)
(* SpecExt is the router beside another writer of accounts.status.         *)
(* AuthSpec is login of the auth router (src/__tests__/validations.test.ts *)
(* holds its source) over users, sessions and the loginAttempts Map, with  *)
(* the account router quiet.  SessionSpec is logout beside login calls     *)
(* that come one after the other, and SignupSpec is signup.  SchemaSpec is *)
(* fundingSchema (src/__tests__/integration.test.ts holds its source)      *)
(* applied to one fundingSource.  RealSpec is the arithmetic of            *)
(* fundAccount over amounts with hundredths, with balance and amount as    *)
(* the binary64 values that the REAL column and the JavaScript number are. *)
(***************************************************************************)
EXTENDS Integers, Sequences, FiniteSets, TLC

\* ------------------------------------------------------------- bounds
NumProcs == 3
NumUsers == 2
NumNumbers == 3
MaxAccountId == 2
StartTime == 59
MaxTicks == 1
NumSlots == 2
MaxCardLen == 4
NumLogouts == 1
NumSignups == 2
MaxFundings == 4

\* ------------------------------------------------- program constants
SeedBalance == 100
SeedAmountA == 10
SeedAmountB == 20
MAX_ATTEMPTS == 5
RATE_LIMIT_WINDOW == 60 * 1000
MantissaBits == 53

Procs == 1..NumProcs
Users == 1..NumUsers
AccountTypes == {"checking", "savings"}
Statuses == {"pending", "active", "closed"}
AccountIds == 1..MaxAccountId
Amounts == {25, 50}
\* Amounts a caller may send that are below the schema's minimum.
InvalidAmounts == {0 - 25, 0}

\* accounts, transactions: the tables of schema.ts, each a sequence of rows in
\*     rowid order (no operation deletes a row, so the id of a row is its place).
\* now: the clock CURRENT_TIMESTAMP reads, in seconds.
\* pc: where each handler call stands: "idle" before it arrives, the await it
\*     waits at, "done" once it has returned or thrown.
\* call: the input and ctx.user of each call.
\* account, accountNumber: the locals of a call that live across an await.
\* ret: what each call returned or threw.
VARIABLES accounts, transactions, now, pc, call, account, accountNumber, ret

\* users, sessions: the tables of schema.ts the auth router reads and writes.
\* loginAttempts: the Map of auth.ts, email to {count, expires}.
\* clock: what Date.now() reads, in milliseconds.
\* logins: the login calls in flight, each with its input, its locals that live
\*     across an await, the await it waits at and what it returned or threw.
\* failures, latest: history the claims about login speak of, which no action
\*     reads to decide what the program does: per email the failed attempts of
\*     its running window, and per user the token the latest login returned.
VARIABLES users, sessions, loginAttempts, clock, logins, failures, latest

\* logouts, signups: the logout and the signup calls of the auth router, each
\*     with its request, its locals that live across an await, the await it
\*     waits at and what it returned or threw.
VARIABLES logouts, signups

\* parse: one fundingSource object and what fundingSchema said of it.
VARIABLES parse

\* real: the balance of one account as the REAL column holds it, the balance
\*     the last funding returned, and, as history, the count of the fundings
\*     and the hundredths the account began with and was funded with.
VARIABLES real

routerVars == <<accounts, transactions, now, pc, call, account, accountNumber, ret>>

authVars == <<users, sessions, loginAttempts, clock, logins, failures, latest>>

authCalls == <<logouts, signups>>

vars == <<routerVars, authVars, authCalls, parse, real>>

\* ------------------------------------------------------------ helpers
Range(s) == {s[i] : i \in 1..Len(s)}

\* .get(): the first row of a result, or undefined.
NoAccount ==
    [id |-> 0, userId |-> 0, accountNumber |-> 0, accountType |-> "none",
     balance |-> 0, status |-> "none"]

NoTransaction ==
    [id |-> 0, accountId |-> 0, type |-> "none", amount |-> 0,
     status |-> "none", createdAt |-> <<>>]

\* An account number is one of NumNumbers values; the code draws it from
\* 1000000000..9999999998 and stores its decimal string, which is one-to-one.
Numbers == 1..NumNumbers

\* CURRENT_TIMESTAMP: the text "YYYY-MM-DD HH:MM:SS" of the clock, one second
\* fine; the model keeps its minutes and seconds, two decimal digits each.
CurrentTimestamp(t) ==
    <<(t \div 60) \div 10, (t \div 60) % 10, (t % 60) \div 10, (t % 60) % 10>>

\* The time a timestamp text stands for.
TimeOf(ts) == (ts[1] * 10 + ts[2]) * 60 + ts[3] * 10 + ts[4]

\* SQLite compares TEXT values character by character.
RECURSIVE TextLessFrom(_, _, _)
TextLessFrom(a, b, i) ==
    IF i > Len(a) THEN i <= Len(b)
    ELSE IF i > Len(b) THEN FALSE
    ELSE IF a[i] # b[i] THEN a[i] < b[i]
    ELSE TextLessFrom(a, b, i + 1)

TextLess(a, b) == TextLessFrom(a, b, 1)

\* ------------------------------------------------------- the database
\* Mutant: the lookup by id alone, without eq(accounts.userId, ctx.user.id).
FindOwnedAccount_AnyOwner(accts, id, userId) ==
    LET found == SelectSeq(accts, LAMBDA a : a.id = id)
    IN  IF found = <<>> THEN NoAccount ELSE Head(found)

\* select().from(accounts).where(and(eq(id), eq(userId))).get()
FindOwnedAccount(accts, id, userId) ==
    LET found == SelectSeq(accts, LAMBDA a : a.id = id /\ a.userId = userId)
    IN  IF found = <<>> THEN NoAccount ELSE Head(found)

\* select().from(accounts).where(and(eq(userId), eq(accountType))).get()
FindByUserAndType(accts, userId, accountType) ==
    LET found == SelectSeq(accts,
                     LAMBDA a : a.userId = userId /\ a.accountType = accountType)
    IN  IF found = <<>> THEN NoAccount ELSE Head(found)

\* select().from(accounts).where(eq(accountNumber)).get()
FindByNumber(accts, number) ==
    LET found == SelectSeq(accts, LAMBDA a : a.accountNumber = number)
    IN  IF found = <<>> THEN NoAccount ELSE Head(found)

\* Mutant: the column without .unique(), as in the tests' CREATE TABLE.
UniqueViolation_None(accts, number) == FALSE

\* accountNumber: text("account_number").unique(): an insert of a number that
\* a row holds fails.
UniqueViolation(accts, number) ==
    \E i \in 1..Len(accts) : accts[i].accountNumber = number

\* Mutant: the fallback object of the handler before PERF-401, with its
\* hardcoded balance and the status of a row that is not yet open.
NewAccount_Fallback(accts, userId, number, accountType) ==
    [id |-> 0, userId |-> userId, accountNumber |-> number,
     accountType |-> accountType, balance |-> SeedBalance, status |-> "pending"]

\* The row createAccount inserts; id is the autoincrement primary key.
NewAccount(accts, userId, number, accountType) ==
    [id |-> Len(accts) + 1, userId |-> userId, accountNumber |-> number,
     accountType |-> accountType, balance |-> 0, status |-> "active"]

\* Mutant: only a closed account is refused.
IsActive_NotClosed(a) == a.status # "closed"

\* account.status !== "active" is the rejection.
IsActive(a) == a.status = "active"

\* Mutant: the row is written as a withdrawal.
NewTransaction_Withdrawal(txs, accountId, amount, t) ==
    [id |-> Len(txs) + 1, accountId |-> accountId, type |-> "withdrawal",
     amount |-> amount, status |-> "completed",
     createdAt |-> CurrentTimestamp(t)]

\* Mutant: status is left to the column's default, "pending".
NewTransaction_Pending(txs, accountId, amount, t) ==
    [id |-> Len(txs) + 1, accountId |-> accountId, type |-> "deposit",
     amount |-> amount, status |-> "pending",
     createdAt |-> CurrentTimestamp(t)]

\* The row fundAccount inserts; createdAt is the column's default.
NewTransaction(txs, accountId, amount, t) ==
    [id |-> Len(txs) + 1, accountId |-> accountId, type |-> "deposit",
     amount |-> amount, status |-> "completed",
     createdAt |-> CurrentTimestamp(t)]

\* Mutant: the row fetched by orderBy(createdAt).limit(1) after the insert, the
\* first row of the table.
InsertedRow_FirstCreated(txsAfter) == txsAfter[1]

\* insert(transactions).values(...).returning().all(): the row the statement
\* wrote, the last of the table in rowid order.
InsertedRow(txsAfter) == txsAfter[Len(txsAfter)]

\* Mutant: the amount is taken off the balance.
NewBalance_Minus(stored, read, amount) == stored - amount

\* Mutant: the read-then-write update, account.balance + amount.
NewBalance_ReadThenWrite(stored, read, amount) == read + amount

\* sql`${accounts.balance} + ${amount}`: the sum is taken by the database over
\* the balance the row holds at the update, not over the balance the handler
\* read before its await.
NewBalance(stored, read, amount) == stored + amount

\* Mutant: the update without where(eq(accounts.id, input.accountId)).
IncrementBalance_EveryRow(accts, id, amount, read) ==
    [i \in 1..Len(accts) |->
        [accts[i] EXCEPT !.balance = NewBalance(accts[i].balance, read, amount)]]

\* update(accounts).set({balance: ...}).where(eq(id))
IncrementBalance(accts, id, amount, read) ==
    [i \in 1..Len(accts) |->
        IF accts[i].id = id
        THEN [accts[i] EXCEPT !.balance = NewBalance(accts[i].balance, read, amount)]
        ELSE accts[i]]

\* The rows of a set that no other row of it precedes under
\* ORDER BY created_at DESC.
Latest(S) == {x \in S : \A y \in S : ~TextLess(x.createdAt, y.createdAt)}

\* Every sequence of the rows of S that ORDER BY created_at DESC allows: SQL
\* leaves the order of rows with equal keys to the query plan.
RECURSIVE DescOrders(_)
DescOrders(S) ==
    IF S = {} THEN {<<>>}
    ELSE UNION {{<<x>> \o rest : rest \in DescOrders(S \ {x})} : x \in Latest(S)}

\* Mutant: the select without orderBy, the rows in rowid order.
OrderByCreatedAtDesc_Unordered(rows) == {rows}

\* select().from(transactions).where(eq(accountId)).orderBy(desc(createdAt))
OrderByCreatedAtDesc(rows) == DescOrders(Range(rows))

\* Mutant: the select without where(eq(transactions.accountId, ...)).
TransactionsOf_All(txs, accountId) == txs

\* The transactions of one account, in rowid order.
TransactionsOf(txs, accountId) ==
    SelectSeq(txs, LAMBDA t : t.accountId = accountId)

\* accountTransactions.map(t => ({...t, accountType: account.accountType}))
Enrich(rows, a) ==
    [i \in 1..Len(rows) |->
        [id |-> rows[i].id, accountId |-> rows[i].accountId,
         type |-> rows[i].type, amount |-> rows[i].amount,
         status |-> rows[i].status, createdAt |-> rows[i].createdAt,
         accountType |-> a.accountType]]

\* ---------------------------------------------------------- validation
\* Mutant: the schema's amount is z.number() with no minimum.
AtLeastMin_Any(amount) == TRUE

\* z.number().min(0.01, ...): amount >= 0.01, said over whole hundredths.
AtLeastMin(amount) == amount * 100 >= 1

\* The issues fundingSchema raises on the amount of a funding input.
AmountIssues(amount) ==
    IF AtLeastMin(amount) THEN {} ELSE {"Amount must be at least $0.01"}

\* A character of an accountNumber: a decimal digit, or NonDigit, which
\* stands for every character that \D matches.
NonDigit == 10

Digits == 0..9

Chars == Digits \cup {NonDigit}

\* Every string of at most n characters.
Strings(n) == UNION {[1..k -> Chars] : k \in 0..n}

\* data.accountNumber.replace(/\D/g, "")
Sanitize(str) == SelectSeq(str, LAMBDA c : c \in Digits)

\* Mutant: the doubled digit is not brought back under 10.
Doubled_NoFold(digit) == digit * 2

\* digit *= 2; if (digit > 9) digit -= 9
Doubled(digit) == IF digit * 2 > 9 THEN digit * 2 - 9 ELSE digit * 2

\* The loop of the Luhn check, from i down to 0 (here 1), with the flag
\* shouldDouble and the running sum.
RECURSIVE LuhnLoop(_, _, _, _)
LuhnLoop(sanitized, i, shouldDouble, sum) ==
    IF i < 1 THEN sum
    ELSE LET digit == IF shouldDouble THEN Doubled(sanitized[i]) ELSE sanitized[i]
         IN  LuhnLoop(sanitized, i - 1, ~shouldDouble, sum + digit)

\* routingNumber is a string or is left out; !data.routingNumber holds of the
\* empty string too.
RoutingNumbers == {"undefined", "", "021000021"}

\* The issues the superRefine of fundingSource raises.
FundingSourceIssues(data) ==
    (IF data.type = "bank" /\ data.routingNumber \in {"undefined", ""}
     THEN {"Routing number is required for bank transfers"} ELSE {})
    \cup
    (IF data.type = "card"
        /\ LET sanitized == Sanitize(data.accountNumber)
           IN  LuhnLoop(sanitized, Len(sanitized), FALSE, 0) % 10 # 0
     THEN {"Invalid card number"} ELSE {})

\* The fundingSource objects given to the schema: every card whose
\* accountNumber has at most MaxCardLen characters, and bank sources with
\* and without a routing number.
FundingSources ==
    {[type |-> "card", accountNumber |-> str, routingNumber |-> "undefined"] :
        str \in Strings(MaxCardLen)}
    \cup {[type |-> "bank", accountNumber |-> <<1, 2, 3>>, routingNumber |-> r] :
             r \in RoutingNumbers}

\* ------------------------------------------------------ REAL arithmetic
\* accounts.balance and transactions.amount are REAL columns and `amount` is
\* a JavaScript number: an IEEE 754 binary64 value, kept here as the exponent
\* of its leading bit and the bits of its significand, the leading one first.
\* The amounts of the model are positive and far from the ends of the
\* exponent range, so there is no subnormal, no infinity and no sign.
Zero == [e |-> 0, m |-> <<>>]

Zeros(n) == [i \in 1..n |-> 0]

\* The binary digits of a natural number, the leading one first.
RECURSIVE IntBits(_)
IntBits(q) == IF q = 0 THEN <<>> ELSE Append(IntBits(q \div 2), q % 2)

\* 2^i modulo 100, by squaring.
RECURSIVE Pow2Mod(_)
Pow2Mod(i) ==
    IF i = 0 THEN 1
    ELSE IF i % 2 = 1 THEN (2 * Pow2Mod(i - 1)) % 100
    ELSE LET half == Pow2Mod(i \div 2) IN (half * half) % 100

\* What is left of r hundredths after i binary digits of r / 100 are taken.
Rem(r, i) == (r * Pow2Mod(i)) % 100

\* The first n binary digits of r / 100 after the point.
FracBits(r, n) == [i \in 1..n |-> (2 * Rem(r, i - 1)) \div 100]

\* The place of the first 1 of a sequence of bits that holds one.
First1(bits) == CHOOSE i \in 1..Len(bits) :
                    bits[i] = 1 /\ \A j \in 1..(i - 1) : bits[j] = 0

\* bits + 1, as a number of Len(bits) + 1 digits.
Increment(bits) ==
    LET n == Len(bits)
        carry(i) == IF \A j \in (i + 1)..n : bits[j] = 1 THEN 1 ELSE 0
    IN  <<carry(0)>> \o [i \in 1..n |-> (bits[i] + carry(i)) % 2]

\* Round to nearest, ties to even: the value whose digits are `bits`, the
\* first of them a 1 of weight 2^e, followed by more digits that are all 0
\* exactly when sticky is FALSE.
Round(bits, e, sticky) ==
    LET padded == bits \o Zeros(MantissaBits + 1)
        kept == SubSeq(padded, 1, MantissaBits)
        half == padded[MantissaBits + 1]
        rest == sticky \/ \E i \in (MantissaBits + 2)..Len(bits) : bits[i] = 1
        up == half = 1 /\ (rest \/ kept[MantissaBits] = 1)
        raised == Increment(kept)
    IN  IF ~up THEN [e |-> e, m |-> kept]
        ELSE IF raised[1] = 1
        THEN [e |-> e + 1, m |-> SubSeq(raised, 1, MantissaBits)]
        ELSE [e |-> e, m |-> SubSeq(raised, 2, MantissaBits + 1)]

\* The number a decimal text of `cents` hundredths is parsed to: JSON.parse of
\* the request, and parseFloat(input.amount.toString()), which gives the same
\* number back.
ParseFloat(cents) ==
    IF cents = 0 THEN Zero
    ELSE LET whole == IntBits(cents \div 100)
             r == cents % 100
             n == 2 * MantissaBits
             digits == whole \o FracBits(r, n)
             first == First1(digits)
         IN  Round(SubSeq(digits, first, Len(digits)), Len(whole) - first,
                   Rem(r, n) # 0)

\* The sum of two numbers of as many binary digits, in as many digits (the
\* first digit of both is 0): a place receives a carry when a place to its
\* right holds two ones and every place between holds one.
SumBits(a, b) ==
    LET n == Len(a)
        carry(i) ==
            IF \E j \in (i + 1)..n :
                  /\ a[j] + b[j] = 2
                  /\ \A k \in (i + 1)..(j - 1) : a[k] + b[k] = 1
            THEN 1 ELSE 0
    IN  [i \in 1..n |-> (a[i] + b[i] + carry(i)) % 2]

\* sql`${accounts.balance} + ${amount}`: the sum of two REAL values, rounded
\* to the nearest REAL value.
RealAdd(x, y) ==
    IF x = Zero THEN y ELSE IF y = Zero THEN x
    ELSE LET hi == IF x.e >= y.e THEN x ELSE y
             lo == IF x.e >= y.e THEN y ELSE x
             d == hi.e - lo.e
             a == <<0>> \o hi.m \o Zeros(d)
             b == <<0>> \o Zeros(d) \o lo.m
             sum == SumBits(a, b)
             n == Len(sum)
             first == First1(sum)
         IN  Round(SubSeq(sum, first, n), hi.e + 2 - first, FALSE)

\* Amounts with hundredths, each at least the schema's minimum, in hundredths.
RealAmounts == {1, 10, 20, 70, 110}

NoReal == [balance |-> Zero, newBalance |-> Zero, fundings |-> 0, cents |-> 0]

\* ------------------------------------------------------------ requests
NoCall ==
    [op |-> "none", userId |-> 0, accountId |-> 0, amount |-> 0,
     accountType |-> "none"]

Requests ==
    {[op |-> "createAccount", userId |-> u, accountId |-> 0, amount |-> 0,
      accountType |-> t] : u \in Users, t \in AccountTypes}
    \cup {[op |-> "getAccounts", userId |-> u, accountId |-> 0, amount |-> 0,
           accountType |-> "none"] : u \in Users}
    \cup {[op |-> "fundAccount", userId |-> u, accountId |-> a, amount |-> m,
           accountType |-> "none"] :
              u \in Users, a \in AccountIds, m \in Amounts \cup InvalidAmounts}
    \cup {[op |-> "getTransactions", userId |-> u, accountId |-> a, amount |-> 0,
           accountType |-> "none"] : u \in Users, a \in AccountIds}

NoRet ==
    [code |-> "none", message |-> "", account |-> NoAccount,
     transaction |-> NoTransaction, newBalance |-> 0, rows |-> <<>>,
     issues |-> {}]

\* A thrown TRPCError, or the error of the database driver.
Throw(code, message) == [NoRet EXCEPT !.code = code, !.message = message]

\* A returned value.
Ok == [NoRet EXCEPT !.code = "OK"]

NotFound == Throw("NOT_FOUND", "Account not found")
NotActive == Throw("BAD_REQUEST", "Account is not active")
Conflict(accountType) ==
    Throw("CONFLICT",
          IF accountType = "checking" THEN "You already have a checking account"
          ELSE "You already have a savings account")
\* The error of a procedure whose input its schema refused; the handler has
\* not run.  Its message is the JSON text of the zod issues, kept here as the
\* set of their messages.
InvalidInput(issues) == [Throw("BAD_REQUEST", "") EXCEPT !.issues = issues]

UniqueFailed ==
    Throw("SQLITE_CONSTRAINT_UNIQUE", "UNIQUE constraint failed: accounts.account_number")

\* --------------------------------------------------------------- auth
Slots == 1..NumSlots

\* bcrypt.hash and bcrypt.compare: compare holds of the password a hash was
\* made of and of no other.
Hash(password) == <<"bcrypt", password>>

Compare(password, hash) == hash = Hash(password)

NoUser == [id |-> 0, email |-> "", password |-> <<>>]

\* Two users who signed up, each with the password "right".
SeedUsers ==
    << [id |-> 1, email |-> "ann@bank.test", password |-> Hash("right")],
       [id |-> 2, email |-> "bob@bank.test", password |-> Hash("right")] >>

\* The users table with both users, and before the first of them signed up.
UserTables == {SeedUsers, SelectSeq(SeedUsers, LAMBDA u : u.id # 1)}

\* The inputs of login: one email, which is the first user's where that user
\* has signed up and no user's where not, and a password that is or is not
\* that user's.
LoginEmails == {"ann@bank.test"}

Emails == LoginEmails \cup {SeedUsers[i].email : i \in 1..Len(SeedUsers)}

Passwords == {"right", "wrong"}

\* select().from(users).where(eq(users.email, input.email)).get()
FindUser(rows, email) ==
    LET found == SelectSeq(rows, LAMBDA u : u.email = email)
    IN  IF found = <<>> THEN NoUser ELSE Head(found)

\* jwt.sign({userId}, secret, {expiresIn: "7d"}): the token is a function of
\* its payload, the user's id and iat, the second of the signing; exp is iat
\* plus seven days.
NoToken == [userId |-> 0, iat |-> 0 - 1]

Sign(userId, t) == [userId |-> userId, iat |-> t \div 1000]

\* A session row; its id and expiresAt are read by no operation of login.
Session(userId, token) == [userId |-> userId, token |-> token]

\* token: text("token").notNull().unique()
TokenTaken(rows, token) == \E i \in 1..Len(rows) : rows[i].token = token

\* delete(sessions).where(eq(sessions.userId, user.id))
DeleteSessionsOf(rows, userId) == SelectSeq(rows, LAMBDA r : r.userId # userId)

\* loginAttempts.get(email) of an email the Map does not hold.
NoAttempts == [count |-> 0, expires |-> 0]

\* Mutant: the window is over once now reaches expires.
Expired_AtExpiry(attempts, t) == attempts # NoAttempts /\ t >= attempts.expires

\* now > attempts.expires
Expired(attempts, t) == attempts # NoAttempts /\ t > attempts.expires

\* attempts.count >= MAX_ATTEMPTS, of an entry that has not expired
Limited(attempts, t) ==
    /\ attempts # NoAttempts
    /\ ~Expired(attempts, t)
    /\ attempts.count >= MAX_ATTEMPTS

\* "Record failed attempt": the entry of the email one higher, or a new entry
\* that expires a window after the call's now.
RecordFailure(map, email, t) ==
    LET current == IF map[email] # NoAttempts THEN map[email]
                   ELSE [count |-> 0, expires |-> t + RATE_LIMIT_WINDOW]
    IN  [map EXCEPT ![email] =
            [count |-> current.count + 1, expires |-> current.expires]]

\* A login call: input, the locals now, user and token, and the result.
NoLogin ==
    [pc |-> "idle", email |-> "", password |-> "", now |-> 0, user |-> NoUser,
     token |-> NoToken, code |-> "none", message |-> ""]

\* ------------------------------------------------------ logout, signup
LogoutSlots == 1..NumLogouts

SignupSlots == 1..NumSignups

\* The session cookie of a logout request: no cookie, or a token the server
\* signed for one of the users at one of the instants.
Cookies == {NoToken} \cup {Sign(SeedUsers[i].id, t) : i \in 1..Len(SeedUsers),
                                                      t \in {0, RATE_LIMIT_WINDOW}}

\* ctx.user of a request: the user of the session row that holds the request's
\* token (0 for null), as the context is made before the handler runs.
Authenticate(rows, token) ==
    LET found == SelectSeq(rows, LAMBDA r : r.token = token)
    IN  IF found = <<>> THEN 0 ELSE Head(found).userId

\* delete(sessions).where(eq(sessions.token, token))
DeleteToken(rows, token) == SelectSeq(rows, LAMBDA r : r.token # token)

\* A logout call: the request's cookie and ctx.user, and the result.
NoLogout ==
    [pc |-> "idle", token |-> NoToken, user |-> 0, success |-> FALSE,
     message |-> ""]

\* The emails signup is called with, as the client sent them.
SignupEmails == {"ann@bank.test", "Ann@bank.test", "cat@bank.test"}

\* signupSchema, email: z.string().email().toLowerCase(): the handler sees the
\* email in lower case.
Lower(email) == IF email = "Ann@bank.test" THEN "ann@bank.test" ELSE email

\* Mutant: the column without .unique(), as in the tests' CREATE TABLE.
EmailTaken_None(rows, email) == FALSE

\* email: text("email").unique().notNull(): an insert of an email that a row
\* holds fails.
EmailTaken(rows, email) == \E i \in 1..Len(rows) : rows[i].email = email

\* The id the autoincrement primary key gives the next row.
NextId(rows) ==
    IF rows = <<>> THEN 1
    ELSE 1 + (CHOOSE n \in {rows[i].id : i \in 1..Len(rows)} :
                 \A i \in 1..Len(rows) : rows[i].id <= n)

\* The row signup inserts: {...input, password: hashedPassword, ssn: ...}; the
\* other columns are read by no operation of the auth router.
NewUser(rows, email, hashedPassword) ==
    [id |-> NextId(rows), email |-> email, password |-> hashedPassword]

\* A signup call: the email as sent, input.email, the locals hashedPassword,
\* user and token, and the result.
NoSignup ==
    [pc |-> "idle", raw |-> "", email |-> "", hashedPassword |-> <<>>,
     user |-> NoUser, token |-> NoToken, code |-> "none", message |-> ""]

\* The moments Date.now() is read at: the start, the end of a window that
\* began at the start (in another second than the start), and the millisecond
\* after it.
Instants == {0, RATE_LIMIT_WINDOW, RATE_LIMIT_WINDOW + 1}

\* --------------------------------------------------------------- Init
MaxTime == StartTime + MaxTicks

SeedAccount(status) ==
    [id |-> 1, userId |-> 1, accountNumber |-> 1, accountType |-> "checking",
     balance |-> SeedBalance, status |-> status]

\* Two rows put in the table out of time order, as the sorting test does.
SeedTransactions ==
    << [id |-> 1, accountId |-> 1, type |-> "deposit", amount |-> SeedAmountA,
        status |-> "completed", createdAt |-> CurrentTimestamp(StartTime)],
       [id |-> 2, accountId |-> 1, type |-> "deposit", amount |-> SeedAmountB,
        status |-> "completed", createdAt |-> CurrentTimestamp(StartTime - 1)] >>

RouterInit(statuses) ==
    /\ \E s \in statuses : accounts = <<SeedAccount(s)>>
    /\ transactions = SeedTransactions
    /\ now = StartTime
    /\ pc = [p \in Procs |-> "idle"]
    /\ call = [p \in Procs |-> NoCall]
    /\ account = [p \in Procs |-> NoAccount]
    /\ accountNumber = [p \in Procs |-> 0]
    /\ ret = [p \in Procs |-> NoRet]

\* The auth state before any login: the users, one session of user 2, an
\* empty Map.
AuthInit(table) ==
    /\ users = table
    /\ sessions = <<Session(2, Sign(2, 0))>>
    /\ loginAttempts = [e \in Emails |-> NoAttempts]
    /\ clock = 0
    /\ logins = [s \in Slots |-> NoLogin]
    /\ failures = [e \in Emails |-> NoAttempts]
    /\ latest = [i \in 1..Len(SeedUsers) |-> NoToken]
    /\ logouts = [l \in LogoutSlots |-> NoLogout]
    /\ signups = [s \in SignupSlots |-> NoSignup]

NoParse == [state |-> "none", data |-> <<>>, issues |-> {}]

Init == RouterInit(Statuses) /\ AuthInit(SeedUsers) /\ parse = NoParse /\ real = NoReal

\* ------------------------------------------------------------ actions
\* Calls are numbered in the order of their arrival.
Arrives(p) ==
    /\ pc[p] = "idle"
    /\ IF p = 1 THEN TRUE ELSE pc[p - 1] # "idle"

RequestsOf(op) == {r \in Requests : r.op = op}

\* createAccount, to its first await: the owner's account of this type.
createAccount_check(p) ==
    /\ Arrives(p)
    /\ \E input \in RequestsOf("createAccount") :
        LET existingAccount ==
                FindByUserAndType(accounts, input.userId, input.accountType)
        IN  /\ call' = [call EXCEPT ![p] = input]
            /\ IF existingAccount # NoAccount
               THEN /\ ret' = [ret EXCEPT ![p] = Conflict(input.accountType)]
                    /\ pc' = [pc EXCEPT ![p] = "done"]
               ELSE /\ pc' = [pc EXCEPT ![p] = "ca_generate"]
                    /\ ret' = ret
    /\ UNCHANGED <<accounts, transactions, now, account, accountNumber>>
    /\ UNCHANGED <<authVars, authCalls, parse, real>>

\* One turn of while (!isUnique): a number is drawn and looked up.
createAccount_generate(p) ==
    /\ pc[p] = "ca_generate"
    /\ \E n \in Numbers :
        LET isUnique == FindByNumber(accounts, n) = NoAccount
        IN  /\ accountNumber' = [accountNumber EXCEPT ![p] = n]
            /\ pc' = [pc EXCEPT ![p] = IF isUnique THEN "ca_insert" ELSE "ca_generate"]
    /\ UNCHANGED <<accounts, transactions, now, call, account, ret>>
    /\ UNCHANGED <<authVars, authCalls, parse, real>>

\* insert(accounts).values(...).returning(): the unique column rejects a number
\* that is taken by now, and the handler lets that error through.
createAccount_insert(p) ==
    /\ pc[p] = "ca_insert"
    /\ IF UniqueViolation(accounts, accountNumber[p])
       THEN /\ ret' = [ret EXCEPT ![p] = UniqueFailed]
            /\ accounts' = accounts
       ELSE LET row == NewAccount(accounts, call[p].userId, accountNumber[p],
                                  call[p].accountType)
            IN  /\ accounts' = Append(accounts, row)
                /\ ret' = [ret EXCEPT ![p] = [Ok EXCEPT !.account = row]]
    /\ pc' = [pc EXCEPT ![p] = "done"]
    /\ UNCHANGED <<transactions, now, call, account, accountNumber>>
    /\ UNCHANGED <<authVars, authCalls, parse, real>>

\* getAccounts: the caller's accounts.
getAccounts(p) ==
    /\ Arrives(p)
    /\ \E input \in RequestsOf("getAccounts") :
        LET userAccounts == SelectSeq(accounts, LAMBDA a : a.userId = input.userId)
        IN  /\ call' = [call EXCEPT ![p] = input]
            /\ ret' = [ret EXCEPT ![p] = [Ok EXCEPT !.rows = userAccounts]]
    /\ pc' = [pc EXCEPT ![p] = "done"]
    /\ UNCHANGED <<accounts, transactions, now, account, accountNumber>>
    /\ UNCHANGED <<authVars, authCalls, parse, real>>

\* fundAccount called with an input that fundingSchema refuses: the procedure
\* throws before the handler runs.
fundAccount_invalid(p) ==
    /\ Arrives(p)
    /\ \E input \in RequestsOf("fundAccount") :
        /\ AmountIssues(input.amount) # {}
        /\ call' = [call EXCEPT ![p] = input]
        /\ ret' = [ret EXCEPT ![p] = InvalidInput(AmountIssues(input.amount))]
    /\ pc' = [pc EXCEPT ![p] = "done"]
    /\ UNCHANGED <<accounts, transactions, now, account, accountNumber>>
    /\ UNCHANGED <<authVars, authCalls, parse, real>>

\* fundAccount, to its await, on an input the schema accepted: ownership and
\* status.
fundAccount_check(p) ==
    /\ Arrives(p)
    /\ \E input \in RequestsOf("fundAccount") :
        LET found == FindOwnedAccount(accounts, input.accountId, input.userId)
        IN  /\ AmountIssues(input.amount) = {}
            /\ call' = [call EXCEPT ![p] = input]
            /\ account' = [account EXCEPT ![p] = found]
            /\ IF found = NoAccount
               THEN /\ ret' = [ret EXCEPT ![p] = NotFound]
                    /\ pc' = [pc EXCEPT ![p] = "done"]
               ELSE IF ~IsActive(found)
               THEN /\ ret' = [ret EXCEPT ![p] = NotActive]
                    /\ pc' = [pc EXCEPT ![p] = "done"]
               ELSE /\ pc' = [pc EXCEPT ![p] = "fa_write"]
                    /\ ret' = ret
    /\ UNCHANGED <<accounts, transactions, now, accountNumber>>
    /\ UNCHANGED <<authVars, authCalls, parse, real>>

\* db.transaction(...): the row and the increment, with no await between.
fundAccount_write(p) ==
    /\ pc[p] = "fa_write"
    /\ LET transaction ==
               NewTransaction(transactions, call[p].accountId, call[p].amount, now)
           updated == IncrementBalance(accounts, call[p].accountId, call[p].amount,
                                       account[p].balance)
           updatedAccount == updated[call[p].accountId]
           inserted == Append(transactions, transaction)
       IN  /\ transactions' = inserted
           /\ accounts' = updated
           /\ ret' = [ret EXCEPT ![p] =
                        [Ok EXCEPT !.transaction = InsertedRow(inserted),
                                   !.newBalance = updatedAccount.balance]]
    /\ pc' = [pc EXCEPT ![p] = "done"]
    /\ UNCHANGED <<now, call, account, accountNumber>>
    /\ UNCHANGED <<authVars, authCalls, parse, real>>

\* getTransactions, to its await: ownership.
getTransactions_check(p) ==
    /\ Arrives(p)
    /\ \E input \in RequestsOf("getTransactions") :
        LET found == FindOwnedAccount(accounts, input.accountId, input.userId)
        IN  /\ call' = [call EXCEPT ![p] = input]
            /\ account' = [account EXCEPT ![p] = found]
            /\ IF found = NoAccount
               THEN /\ ret' = [ret EXCEPT ![p] = NotFound]
                    /\ pc' = [pc EXCEPT ![p] = "done"]
               ELSE /\ pc' = [pc EXCEPT ![p] = "gt_select"]
                    /\ ret' = ret
    /\ UNCHANGED <<accounts, transactions, now, accountNumber>>
    /\ UNCHANGED <<authVars, authCalls, parse, real>>

\* getTransactions, the ordered select and the enrichment.
getTransactions_select(p) ==
    /\ pc[p] = "gt_select"
    /\ \E accountTransactions \in
            OrderByCreatedAtDesc(TransactionsOf(transactions, call[p].accountId)) :
        ret' = [ret EXCEPT ![p] =
                  [Ok EXCEPT
                      !.rows = Enrich(accountTransactions, account[p])]]
    /\ pc' = [pc EXCEPT ![p] = "done"]
    /\ UNCHANGED <<accounts, transactions, now, call, account, accountNumber>>
    /\ UNCHANGED <<authVars, authCalls, parse, real>>

\* A second passes.
Tick ==
    /\ now < MaxTime
    /\ now' = now + 1
    /\ UNCHANGED <<accounts, transactions, pc, call, account, accountNumber, ret>>
    /\ UNCHANGED <<authVars, authCalls, parse, real>>

Step(p) ==
    \/ createAccount_check(p)
    \/ createAccount_generate(p)
    \/ createAccount_insert(p)
    \/ getAccounts(p)
    \/ fundAccount_check(p)
    \/ fundAccount_write(p)
    \/ getTransactions_check(p)
    \/ getTransactions_select(p)

Next == (\E p \in Procs : Step(p)) \/ Tick

Spec == Init /\ [][Next]_vars

\* The event loop runs every continuation that is ready: a call that has
\* arrived and not returned takes its next step.
Resume(p) == pc[p] # "idle" /\ Step(p)

FairSpec == Spec /\ \A p \in Procs : WF_vars(Resume(p))

\* The router with the calls whose input the schema refuses.
NextRaw == Next \/ (\E p \in Procs : fundAccount_invalid(p))

SpecRaw == Init /\ [][NextRaw]_vars

\* ------------------------------------------- the database's other writers
\* No operation of the router sets accounts.status after the insert.  The
\* column holds "pending", "active" or "closed", and an active row comes to
\* "closed" or "pending" only by a write of another client of the same
\* database file; that write is a statement of its own and runs between two
\* steps of the handlers.
SetStatus(a, s) ==
    /\ a \in 1..Len(accounts)
    /\ accounts[a].status = "active"
    /\ accounts' = [accounts EXCEPT ![a].status = s]
    /\ UNCHANGED <<transactions, now, pc, call, account, accountNumber, ret>>
    /\ UNCHANGED <<authVars, authCalls, parse, real>>

NextExt ==
    Next \/ (\E a \in AccountIds, s \in Statuses \ {"active"} : SetStatus(a, s))

SpecExt == Init /\ [][NextExt]_vars

\* -------------------------------------------------------------- login
\* At most NumSlots login calls are in flight; a call that arrives takes the
\* lowest free slot, and a slot whose call has returned or thrown is free and
\* keeps that result until the next call takes it.
Free(s) == logins[s].pc = "idle"

Takes(s) == Free(s) /\ \A r \in Slots : r < s => ~Free(r)

\* The call of slot s ends: its locals are gone, its input and result stay.
Ended(s, code, message) ==
    [NoLogin EXCEPT !.email = logins[s].email, !.password = logins[s].password,
                    !.code = code, !.message = message]

TooManyRequests == "Too many login attempts. Please try again later."

\* failures counts as the Map does, but keeps its entry when a login succeeds:
\* the failed attempts of an email inside the window that the first of them
\* began, whatever succeeded in between.  It stops counting at MAX_ATTEMPTS.
NoteFailure(hist, email, t) ==
    IF hist[email].count >= MAX_ATTEMPTS THEN hist
    ELSE RecordFailure(hist, email, t)

NoteArrival(hist, email, t) ==
    IF Expired(hist[email], t) THEN [hist EXCEPT ![email] = NoAttempts] ELSE hist

\* "Record failed attempt" and the throw that follows it.
login_fail(s) ==
    /\ loginAttempts' = RecordFailure(loginAttempts, logins[s].email, logins[s].now)
    /\ failures' = NoteFailure(failures, logins[s].email, logins[s].now)
    /\ logins' = [logins EXCEPT ![s] = Ended(s, "UNAUTHORIZED", "Invalid credentials")]

\* login, to its first await: the rate limit, then the select of the user.
login_check(s) ==
    /\ Takes(s)
    /\ \E email \in LoginEmails, password \in Passwords :
        LET attempts == loginAttempts[email]
            arrived == [NoLogin EXCEPT !.email = email, !.password = password]
        IN  /\ loginAttempts' =
                  IF Expired(attempts, clock)
                  THEN [loginAttempts EXCEPT ![email] = NoAttempts]
                  ELSE loginAttempts
            /\ failures' = NoteArrival(failures, email, clock)
            /\ logins' = [logins EXCEPT ![s] =
                  IF Limited(attempts, clock)
                  THEN [arrived EXCEPT !.code = "TOO_MANY_REQUESTS",
                                       !.message = TooManyRequests]
                  ELSE [arrived EXCEPT !.pc = "lg_user", !.now = clock,
                                       !.user = FindUser(users, email)]]
    /\ UNCHANGED <<users, sessions, clock, latest>>
    /\ UNCHANGED <<routerVars, authCalls, parse, real>>

\* if (!user): the failed attempt of an email of no user; else bcrypt.compare
\* is started.
login_user(s) ==
    /\ logins[s].pc = "lg_user"
    /\ IF logins[s].user = NoUser
       THEN login_fail(s)
       ELSE /\ logins' = [logins EXCEPT ![s].pc = "lg_compare"]
            /\ UNCHANGED <<loginAttempts, failures>>
    /\ UNCHANGED <<users, sessions, clock, latest>>
    /\ UNCHANGED <<routerVars, authCalls, parse, real>>

\* if (!validPassword): the failed attempt; else the rate limit of the email
\* is cleared and the delete of the user's sessions is awaited.
login_compare(s) ==
    /\ logins[s].pc = "lg_compare"
    /\ IF ~Compare(logins[s].password, logins[s].user.password)
       THEN login_fail(s)
       ELSE /\ loginAttempts' = [loginAttempts EXCEPT ![logins[s].email] = NoAttempts]
            /\ logins' = [logins EXCEPT ![s].pc = "lg_delete"]
            /\ UNCHANGED failures
    /\ UNCHANGED <<users, sessions, clock, latest>>
    /\ UNCHANGED <<routerVars, authCalls, parse, real>>

\* The awaited delete runs.
login_delete(s) ==
    /\ logins[s].pc = "lg_delete"
    /\ sessions' = DeleteSessionsOf(sessions, logins[s].user.id)
    /\ logins' = [logins EXCEPT ![s].pc = "lg_sign"]
    /\ UNCHANGED <<users, loginAttempts, clock, failures, latest>>
    /\ UNCHANGED <<routerVars, authCalls, parse, real>>

\* After the delete: the token is signed and the insert is awaited.
login_sign(s) ==
    /\ logins[s].pc = "lg_sign"
    /\ logins' = [logins EXCEPT ![s].pc = "lg_insert",
                                ![s].token = Sign(logins[s].user.id, clock)]
    /\ UNCHANGED <<users, sessions, loginAttempts, clock, failures, latest>>
    /\ UNCHANGED <<routerVars, authCalls, parse, real>>

\* The awaited insert runs; the call returns the token, or throws the error
\* of the unique column.
login_insert(s) ==
    /\ logins[s].pc = "lg_insert"
    /\ IF TokenTaken(sessions, logins[s].token)
       THEN /\ logins' = [logins EXCEPT ![s] =
                   Ended(s, "SQLITE_CONSTRAINT_UNIQUE",
                         "UNIQUE constraint failed: sessions.token")]
            /\ UNCHANGED <<sessions, latest>>
       ELSE /\ sessions' = Append(sessions,
                                  Session(logins[s].user.id, logins[s].token))
            /\ logins' = [logins EXCEPT ![s] =
                   [Ended(s, "OK", "") EXCEPT !.token = logins[s].token]]
            /\ latest' = [latest EXCEPT ![logins[s].user.id] = logins[s].token]
    /\ UNCHANGED <<users, loginAttempts, clock, failures>>
    /\ UNCHANGED <<routerVars, authCalls, parse, real>>

\* Time passes.
AuthTick ==
    /\ \E t \in Instants : t > clock /\ clock' = t
    /\ UNCHANGED <<users, sessions, loginAttempts, logins, failures, latest>>
    /\ UNCHANGED <<routerVars, authCalls, parse, real>>

LoginStep(s) ==
    \/ login_check(s)
    \/ login_user(s)
    \/ login_compare(s)
    \/ login_delete(s)
    \/ login_sign(s)
    \/ login_insert(s)

AuthNext == (\E s \in Slots : LoginStep(s)) \/ AuthTick

\* The auth router beside a quiet account router.
AuthSpec ==
    /\ RouterInit({"active"})
    /\ \E table \in UserTables : AuthInit(table)
    /\ parse = NoParse /\ real = NoReal
    /\ [][AuthNext]_vars

\* -------------------------------------------------------------- logout
\* logout, to its await: with ctx.user and a session cookie the delete of the
\* cookie's token is awaited; with no ctx.user, or no cookie, the handler
\* expires the cookie and returns at once.
logout_check(l) ==
    /\ logouts[l].pc = "idle"
    /\ \E token \in Cookies :
        LET user == Authenticate(sessions, token)
            request == [NoLogout EXCEPT !.token = token, !.user = user]
        IN  logouts' = [logouts EXCEPT ![l] =
                IF user # 0 /\ token # NoToken
                THEN [request EXCEPT !.pc = "lo_delete"]
                ELSE [request EXCEPT
                        !.success = TRUE,
                        !.message = IF user # 0 THEN "Logged out successfully"
                                    ELSE "No active session"]]
    /\ UNCHANGED signups
    /\ UNCHANGED <<routerVars, authVars, parse, real>>

\* The awaited delete runs.
logout_delete(l) ==
    /\ logouts[l].pc = "lo_delete"
    /\ sessions' = DeleteToken(sessions, logouts[l].token)
    /\ logouts' = [logouts EXCEPT ![l].pc = "lo_return"]
    /\ UNCHANGED signups
    /\ UNCHANGED <<users, loginAttempts, clock, logins, failures, latest>>
    /\ UNCHANGED <<routerVars, parse, real>>

\* After the delete: the cookie is expired and the call returns.
logout_return(l) ==
    /\ logouts[l].pc = "lo_return"
    /\ logouts' = [logouts EXCEPT ![l] =
            [logouts[l] EXCEPT !.pc = "idle", !.success = TRUE,
                               !.message = "Logged out successfully"]]
    /\ UNCHANGED signups
    /\ UNCHANGED <<routerVars, authVars, parse, real>>

LogoutStep(l) == logout_check(l) \/ logout_delete(l) \/ logout_return(l)

\* login and logout of the auth router: logout calls beside login calls that
\* come one after the other.
SessionNext ==
    \/ LoginStep(1)
    \/ \E l \in LogoutSlots : LogoutStep(l)
    \/ AuthTick

SessionSpec ==
    /\ RouterInit({"active"}) /\ AuthInit(SeedUsers) /\ parse = NoParse /\ real = NoReal
    /\ [][SessionNext]_vars

\* -------------------------------------------------------------- signup
\* The call of slot s ends: its locals are gone, its input and result stay.
SignupEnded(s, code, message) ==
    [NoSignup EXCEPT !.raw = signups[s].raw, !.email = signups[s].email,
                     !.code = code, !.message = message]

\* signup, to its first await: the select of a user of this email.
signup_check(s) ==
    /\ signups[s].pc = "idle"
    /\ \A r \in SignupSlots : r < s => signups[r].pc # "idle"
    /\ \E raw \in SignupEmails :
        LET existingUser == FindUser(users, Lower(raw))
            arrived == [NoSignup EXCEPT !.raw = raw, !.email = Lower(raw)]
        IN  signups' = [signups EXCEPT ![s] =
                IF existingUser # NoUser
                THEN [arrived EXCEPT !.code = "CONFLICT",
                                     !.message = "User already exists"]
                ELSE [arrived EXCEPT !.pc = "su_hash"]]
    /\ UNCHANGED logouts
    /\ UNCHANGED <<routerVars, authVars, parse, real>>

\* await bcrypt.hash(input.password, 10)
signup_hash(s) ==
    /\ signups[s].pc = "su_hash"
    /\ signups' = [signups EXCEPT ![s].pc = "su_insert",
                                  ![s].hashedPassword = Hash("right")]
    /\ UNCHANGED logouts
    /\ UNCHANGED <<routerVars, authVars, parse, real>>

\* The awaited insert runs; the unique column rejects an email that is taken
\* by now, and the handler lets that error through.
signup_insert(s) ==
    /\ signups[s].pc = "su_insert"
    /\ IF EmailTaken(users, signups[s].email)
       THEN /\ signups' = [signups EXCEPT ![s] =
                   SignupEnded(s, "SQLITE_CONSTRAINT_UNIQUE",
                               "UNIQUE constraint failed: users.email")]
            /\ users' = users
       ELSE /\ users' = Append(users, NewUser(users, signups[s].email,
                                              signups[s].hashedPassword))
            /\ signups' = [signups EXCEPT ![s].pc = "su_select"]
    /\ UNCHANGED logouts
    /\ UNCHANGED <<sessions, loginAttempts, clock, logins, failures, latest>>
    /\ UNCHANGED <<routerVars, parse, real>>

\* "Fetch the created user", then the token is signed and the insert of the
\* session is awaited.
signup_select(s) ==
    /\ signups[s].pc = "su_select"
    /\ LET user == FindUser(users, signups[s].email)
       IN  signups' = [signups EXCEPT ![s] =
               IF user = NoUser
               THEN SignupEnded(s, "INTERNAL_SERVER_ERROR", "Failed to create user")
               ELSE [signups[s] EXCEPT !.pc = "su_session", !.user = user,
                                       !.token = Sign(user.id, clock)]]
    /\ UNCHANGED logouts
    /\ UNCHANGED <<routerVars, authVars, parse, real>>

\* The awaited insert of the session runs; the call returns the user and the
\* token, or throws the error of the unique column.
signup_session(s) ==
    /\ signups[s].pc = "su_session"
    /\ IF TokenTaken(sessions, signups[s].token)
       THEN /\ signups' = [signups EXCEPT ![s] =
                   SignupEnded(s, "SQLITE_CONSTRAINT_UNIQUE",
                               "UNIQUE constraint failed: sessions.token")]
            /\ sessions' = sessions
       ELSE /\ sessions' = Append(sessions,
                                  Session(signups[s].user.id, signups[s].token))
            /\ signups' = [signups EXCEPT ![s] =
                   [SignupEnded(s, "OK", "") EXCEPT !.user = signups[s].user,
                                                   !.token = signups[s].token]]
    /\ UNCHANGED logouts
    /\ UNCHANGED <<users, loginAttempts, clock, logins, failures, latest>>
    /\ UNCHANGED <<routerVars, parse, real>>

SignupStep(s) ==
    \/ signup_check(s)
    \/ signup_hash(s)
    \/ signup_insert(s)
    \/ signup_select(s)
    \/ signup_session(s)

SignupNext == (\E s \in SignupSlots : SignupStep(s)) \/ AuthTick

\* signup of the auth router, over the users table with and without the
\* first user.
SignupSpec ==
    /\ RouterInit({"active"})
    /\ \E table \in UserTables : AuthInit(table)
    /\ parse = NoParse /\ real = NoReal
    /\ [][SignupNext]_vars

\* ------------------------------------------------- fundAccount over REAL
\* fundAccount of the owner on the active account, one call after the other,
\* with the numbers as the code holds them: amount is the parsed number, the
\* update adds it to the REAL balance of the row, and the call returns the
\* balance of the updated row.
fundAccount_real ==
    /\ real.fundings < MaxFundings
    /\ \E cents \in RealAmounts :
        LET amount == ParseFloat(cents)
            updated == RealAdd(real.balance, amount)
        IN  real' = [balance |-> updated, newBalance |-> updated,
                     fundings |-> real.fundings + 1,
                     cents |-> real.cents + cents]
    /\ UNCHANGED <<routerVars, authVars, authCalls, parse>>

\* The account as createAccount makes it, with balance 0, or as the tests
\* seed it.
RealSpec ==
    /\ RouterInit({"active"}) /\ AuthInit(SeedUsers) /\ parse = NoParse
    /\ \E start \in {0, 100 * SeedBalance} :
          real = [NoReal EXCEPT !.balance = ParseFloat(start), !.cents = start]
    /\ [][fundAccount_real]_vars

\* ------------------------------------------------------ fundingSchema
\* fundingSchema.safeParse of one fundingSource.
fundingSchema_parse ==
    /\ parse.state = "input"
    /\ parse' = [parse EXCEPT !.state = "parsed",
                              !.issues = FundingSourceIssues(parse.data)]
    /\ UNCHANGED <<routerVars, authVars, authCalls, real>>

\* The schema alone, given each fundingSource in turn.
SchemaSpec ==
    /\ RouterInit({"active"}) /\ AuthInit(SeedUsers)
    /\ \E data \in FundingSources :
          parse = [state |-> "input", data |-> data, issues |-> {}]
    /\ real = NoReal
    /\ [][fundingSchema_parse]_vars

\* ------------------------------------------------- what the claims use
AccountRows == 1..Len(accounts)

\* The balance an account starts with: the seeded row's, or the 0 of createAccount.
InitialBalance(a) == IF a = 1 THEN SeedBalance ELSE 0

\* The rows fundAccount wrote.
NewRows == (Len(SeedTransactions) + 1)..Len(transactions)

FundCalls(a) ==
    {p \in Procs : call[p].op = "fundAccount" /\ call[p].accountId = a}

Accepted(a) == {p \in FundCalls(a) : ret[p].code = "OK"}

RECURSIVE SumAmounts(_)
SumAmounts(P) ==
    IF P = {} THEN 0
    ELSE LET p == CHOOSE q \in P : TRUE
         IN  call[p].amount + SumAmounts(P \ {p})

\* Completed deposits less completed withdrawals among the rows I of an account.
RECURSIVE NetCompleted(_, _)
NetCompleted(a, I) ==
    IF I = {} THEN 0
    ELSE LET i == CHOOSE j \in I : TRUE
             t == transactions[i]
             signed == IF t.accountId # a \/ t.status # "completed" THEN 0
                       ELSE IF t.type = "deposit" THEN t.amount
                       ELSE IF t.type = "withdrawal" THEN 0 - t.amount
                       ELSE 0
         IN  signed + NetCompleted(a, I \ {i})

Owns(userId, a) == a \in AccountRows /\ accounts[a].userId = userId

\* Call p arrives in this step.
Arriving(p, op) == pc[p] = "idle" /\ pc'[p] # "idle" /\ call'[p].op = op

DbUnchanged == accounts' = accounts /\ transactions' = transactions

\* ------------------------------------------------------------- claims
\* C1: once every fundAccount call on an account has returned, the balance is
\* the initial balance plus the sum of the amounts of the calls that were
\* accepted, each of them left exactly one new completed row, and every call of
\* the owner on the account that was active from the start was accepted.
C1_AtomicFunding ==
    \A a \in AccountRows :
        (\A p \in FundCalls(a) : pc[p] = "done") =>
            /\ accounts[a].balance = InitialBalance(a) + SumAmounts(Accepted(a))
            /\ Cardinality({i \in NewRows : /\ transactions[i].accountId = a
                                            /\ transactions[i].status = "completed"})
                 = Cardinality(Accepted(a))
            /\ (a = 1 /\ accounts[a].status = "active") =>
                   \A p \in FundCalls(a) :
                       call[p].userId = accounts[a].userId => ret[p].code = "OK"

\* Three calls of the owner on one account, all returned, of which two read
\* the same balance before either wrote: they ran concurrently.
C1_Witness ==
    /\ Cardinality(Accepted(1)) = NumProcs
    /\ \A p \in Procs : pc[p] = "done"
    /\ \E p, q \in Accepted(1) : p # q /\ account[p].balance = account[q].balance
    /\ accounts[1].balance > SeedBalance

\* C2: in every state the balance of every account is its initial balance (0
\* for an account made by createAccount) plus its completed deposits less its
\* completed withdrawals.
C2_LedgerConsistency ==
    \A a \in AccountRows :
        accounts[a].balance = InitialBalance(a) + NetCompleted(a, NewRows)

\* An account made by createAccount holds a funding while a reader of that
\* account is between its ownership check and its select.
C2_Witness ==
    \E a \in AccountRows :
        /\ a # 1
        /\ accounts[a].balance > 0
        /\ \E p \in Procs : pc[p] = "gt_select" /\ call[p].accountId = a

\* C3: a fundAccount or getTransactions call by a user who does not own the
\* account ends with NOT_FOUND, the same for an account of another user and for
\* no account, and leaves both tables as they were.
C3_OwnershipIsolation ==
    [][\A p \in Procs :
          ( /\ Arriving(p, "fundAccount") \/ Arriving(p, "getTransactions")
            /\ ~Owns(call'[p].userId, call'[p].accountId) )
          => (pc'[p] = "done" /\ ret'[p] = NotFound /\ DbUnchanged)]_vars

\* A funding refused for an account of another user, and a history refused for
\* an account that does not exist.
C3_Witness ==
    /\ \E p \in Procs :
        /\ call[p].op = "fundAccount" /\ ret[p] = NotFound
        /\ call[p].accountId \in AccountRows
        /\ accounts[call[p].accountId].userId # call[p].userId
    /\ \E q \in Procs :
        /\ call[q].op = "getTransactions" /\ ret[q] = NotFound
        /\ call[q].accountId \notin AccountRows

\* C4: a fundAccount call of the owner on a pending or closed account ends with
\* "Account is not active" and leaves both tables as they were.
C4_InactiveRejection ==
    [][\A p \in Procs :
          ( /\ Arriving(p, "fundAccount")
            /\ Owns(call'[p].userId, call'[p].accountId)
            /\ accounts[call'[p].accountId].status \in {"pending", "closed"} )
          => (pc'[p] = "done" /\ ret'[p] = NotActive /\ DbUnchanged)]_vars

\* The owner's funding of the pending, or of the closed, seeded account was refused.
C4_Witness ==
    \E p \in Procs :
        /\ call[p].op = "fundAccount" /\ ret[p] = NotActive
        /\ Owns(call[p].userId, call[p].accountId)
        /\ accounts[call[p].accountId].status \in {"pending", "closed"}
        /\ accounts[call[p].accountId].balance = SeedBalance

\* C5: an owner never holds two accounts of one type that are not closed.
C5_OneAccountPerType ==
    \A i, j \in AccountRows :
        ( /\ i # j
          /\ accounts[i].userId = accounts[j].userId
          /\ accounts[i].accountType = accounts[j].accountType )
        => (accounts[i].status = "closed" \/ accounts[j].status = "closed")

\* C6: no two account rows hold the same accountNumber.
C6_UniqueAccountNumbers ==
    \A i, j \in AccountRows :
        i # j => accounts[i].accountNumber # accounts[j].accountNumber

\* Two createAccount calls drew the same number and both found it free; the
\* insert of one was accepted and the insert of the other refused.
C6_Witness ==
    \E p, q \in Procs :
        /\ p # q
        /\ call[p].op = "createAccount" /\ call[q].op = "createAccount"
        /\ accountNumber[p] = accountNumber[q]
        /\ ret[p].code = "OK" /\ ret[q] = UniqueFailed

\* Every account number is taken.
Exhausted == \A n \in Numbers : UniqueViolation(accounts, n)

\* C7: the generate-and-check loop of createAccount is bounded: once a call is
\* in the loop with every number taken, so that every number it draws
\* collides, the calls in the loop come to an end.
C7_BoundedRetry ==
    (\E p \in Procs : pc[p] = "ca_generate" /\ Exhausted)
        ~> (\A p \in Procs : pc[p] # "ca_generate")

\* C8: a createAccount call whose insert meets a number taken since its check
\* goes back to generating, and leaves the table as it was.
C8_RetryOnDuplicate ==
    [][\A p \in Procs :
          ( /\ pc[p] = "ca_insert"
            /\ UniqueViolation(accounts, accountNumber[p])
            /\ pc'[p] # pc[p] )
          => (pc'[p] = "ca_generate" /\ accounts' = accounts)]_vars

\* The calls of getTransactions that returned rows.
Histories ==
    {p \in Procs : call[p].op = "getTransactions" /\ ret[p].code = "OK"}

\* C9: of two returned transactions whose createdAt differ, the later one
\* comes first.
C9_NewestFirst ==
    \A p \in Histories :
        \A i, j \in 1..Len(ret[p].rows) :
            (i < j /\ ret[p].rows[i].createdAt # ret[p].rows[j].createdAt)
            => TimeOf(ret[p].rows[i].createdAt) > TimeOf(ret[p].rows[j].createdAt)

\* A history of three or more rows, written in the minutes before and after a
\* full minute, in which a row inserted later stands before one inserted
\* earlier and a row inserted earlier before one inserted later.
C9_Witness ==
    \E p \in Histories :
        LET rows == ret[p].rows
        IN  /\ Len(rows) >= 3
            /\ rows[1].createdAt[2] # rows[Len(rows)].createdAt[2]
            /\ \E i, j \in 1..Len(rows) :
                i < j /\ rows[i].id > rows[j].id
                      /\ rows[i].createdAt # rows[j].createdAt
            /\ \E i, j \in 1..Len(rows) :
                i < j /\ rows[i].id < rows[j].id
                      /\ rows[i].createdAt # rows[j].createdAt

\* C10: of two returned transactions with equal createdAt, the one inserted
\* later comes first.
C10_TiesLaterInsertedFirst ==
    \A p \in Histories :
        \A i, j \in 1..Len(ret[p].rows) :
            (i < j /\ ret[p].rows[i].createdAt = ret[p].rows[j].createdAt)
            => ret[p].rows[i].id > ret[p].rows[j].id

\* C11: no funding writes to an account that is not active at the moment of the
\* write: a fundAccount call whose account has come to "closed" or "pending"
\* since its check is refused and writes neither a row nor a balance.
C11_ActiveAtWrite ==
    [][\A p \in Procs :
          (pc[p] = "fa_write" /\ pc'[p] # "fa_write"
              /\ accounts[call[p].accountId].status # "active")
          => (ret'[p] = NotActive /\ DbUnchanged)]_vars

\* The owner holds an account of this type that is not closed.
HoldsOpen(userId, accountType) ==
    \E a \in AccountRows :
        /\ accounts[a].userId = userId
        /\ accounts[a].accountType = accountType
        /\ accounts[a].status # "closed"

\* C12: a createAccount call ends with CONFLICT exactly when the owner holds an
\* account of that type that is not closed, and then adds no row; an owner
\* whose only account of that type is closed is not refused with CONFLICT.
C12_ConflictIffOpenAccount ==
    [][\A p \in Procs :
          Arriving(p, "createAccount") =>
              /\ (ret'[p].code = "CONFLICT")
                    <=> HoldsOpen(call'[p].userId, call'[p].accountType)
              /\ ret'[p].code = "CONFLICT" => (pc'[p] = "done" /\ DbUnchanged)]_vars

\* Call p runs its db.transaction in this step and returns.
Funds(p) == pc[p] = "fa_write" /\ pc'[p] = "done" /\ ret'[p].code = "OK"

\* C13: a fundAccount call that succeeds with amount x raises the stored balance
\* of its account by exactly x and returns, as newBalance, the balance the row
\* holds right after that increment, and, as transaction, the row this call
\* inserted: a new row, the last of the table, of this account and amount.
C13_FundingResult ==
    [][\A p \in Procs :
          Funds(p) =>
              LET a == call[p].accountId
                  x == call[p].amount
              IN  /\ accounts'[a].balance = accounts[a].balance + x
                  /\ ret'[p].newBalance = accounts'[a].balance
                  /\ Len(transactions') = Len(transactions) + 1
                  /\ ret'[p].transaction = transactions'[Len(transactions')]
                  /\ ret'[p].transaction.id = Len(transactions')
                  /\ ret'[p].transaction.accountId = a
                  /\ ret'[p].transaction.amount = x]_vars

\* A funding returned while another had written to the same account between
\* this call's read and its write: the balance it returned is not the balance
\* it read plus its amount, and the row it returned is not the first fundAccount
\* wrote.
C13_Witness ==
    \E p, q \in Accepted(1) :
        /\ p # q
        /\ pc[p] = "done" /\ pc[q] = "done"
        /\ ret[p].newBalance # account[p].balance + call[p].amount
        /\ ret[p].newBalance = accounts[1].balance
        /\ ret[p].transaction.id > Len(SeedTransactions) + 1

\* Call p of fundAccount throws in this step.
FundFails(p) ==
    /\ pc[p] # "done" /\ pc'[p] = "done"
    /\ call'[p].op = "fundAccount" /\ ret'[p].code # "OK"

\* C14: a fundAccount call that succeeds adds exactly one row, a completed
\* deposit of the call's amount on the funded account; a call that fails adds
\* none; and no step of any operation changes or removes a row the table holds.
C14_OneRowPerFunding ==
    [][/\ Len(transactions') >= Len(transactions)
       /\ \A i \in 1..Len(transactions) : transactions'[i] = transactions[i]
       /\ \A p \in Procs :
            Funds(p) =>
                LET row == transactions'[Len(transactions')]
                IN  /\ Len(transactions') = Len(transactions) + 1
                    /\ row.type = "deposit" /\ row.status = "completed"
                    /\ row.amount = call[p].amount
                    /\ row.accountId = call[p].accountId
       /\ \A p \in Procs : FundFails(p) => transactions' = transactions
       /\ transactions' # transactions => \E p \in Procs : Funds(p)]_vars

\* Fundings of both kinds have returned: refused ones, and accepted ones that
\* left one row each after the seeded rows.
C14_Witness ==
    /\ \E p \in Procs : call[p].op = "fundAccount" /\ ret[p] = NotFound
    /\ \E p \in Procs : call[p].op = "fundAccount" /\ ret[p].code = "OK"
    /\ \A p \in Procs : pc[p] = "done"
    /\ Len(transactions) = Len(SeedTransactions)
          + Cardinality({p \in Procs : call[p].op = "fundAccount" /\ ret[p].code = "OK"})
    /\ Len(transactions) > Len(SeedTransactions)

\* C15: a getTransactions call of the owner returns exactly the rows whose
\* accountId is the requested account, each once and as stored, each with the
\* accountType of the account its ownership check found, and no step of the
\* call changes a table.
C15_HistoryOfAccount ==
    [][\A p \in Procs :
          /\ Arriving(p, "getTransactions") => DbUnchanged
          /\ (pc[p] = "gt_select" /\ pc'[p] = "done") => DbUnchanged
          /\ (pc[p] = "gt_select" /\ pc'[p] = "done") =>
               LET a == call[p].accountId
                   rows == ret'[p].rows
                   ofAccount == {i \in 1..Len(transactions) :
                                    transactions[i].accountId = a}
               IN  /\ ret'[p].code = "OK"
                   /\ Len(rows) = Cardinality(ofAccount)
                   /\ {rows[i].id : i \in 1..Len(rows)} = ofAccount
                   /\ \A i \in 1..Len(rows) :
                        LET t == transactions[rows[i].id]
                        IN  /\ rows[i].accountId = a
                            /\ rows[i].type = t.type
                            /\ rows[i].amount = t.amount
                            /\ rows[i].status = t.status
                            /\ rows[i].createdAt = t.createdAt
                            /\ rows[i].accountType = account[p].accountType
                            /\ rows[i].accountType = accounts[a].accountType]_vars

\* The history of a savings account made by createAccount, returned with its
\* one row while the table holds the rows of the seeded checking account too.
C15_Witness ==
    \E p \in Histories :
        /\ call[p].accountId # 1
        /\ Len(ret[p].rows) = 1
        /\ ret[p].rows[1].accountType = "savings"
        /\ ret[p].rows[1].id = Len(SeedTransactions) + 1

\* C16: the balance of every account is at least 0, no step lowers the balance
\* of an account, and a step that changes the balance of an account the table
\* holds is the write of a fundAccount call on that account that succeeds.
C16_BalanceMonotone ==
    [][/\ \A a \in 1..Len(accounts') : accounts'[a].balance >= 0
       /\ \A a \in AccountRows :
            /\ accounts[a].balance >= 0
            /\ accounts'[a].balance >= accounts[a].balance
            /\ accounts'[a].balance # accounts[a].balance =>
                 \E p \in Procs : Funds(p) /\ call[p].accountId = a]_vars

\* The seeded account was funded, an account made by createAccount holds its
\* first balance, 0, and a funding of a negative amount by the owner of the
\* seeded active account has been refused.
C16_Witness ==
    /\ accounts[1].balance > SeedBalance
    /\ \E a \in AccountRows : a # 1 /\ accounts[a].balance = 0
    /\ \E p \in Procs :
        /\ call[p].op = "fundAccount" /\ call[p].amount < 0
        /\ Owns(call[p].userId, call[p].accountId)
        /\ ret[p].code = "BAD_REQUEST"

\* C17: a fundAccount call whose amount is below 0.01 is refused by
\* fundingSchema before the handler reads or writes the store, and every row
\* fundAccount wrote holds an amount of at least 0.01.
C17_MinimumAmount ==
    [][/\ \A p \in Procs :
            (Arriving(p, "fundAccount") /\ call'[p].amount * 100 < 1) =>
                /\ pc'[p] = "done"
                /\ ret'[p] = InvalidInput({"Amount must be at least $0.01"})
                /\ account'[p] = NoAccount
                /\ DbUnchanged
       /\ \A i \in (Len(SeedTransactions) + 1)..Len(transactions') :
            transactions'[i].amount * 100 >= 1]_vars

\* The owner of the seeded active account sent the amount 0 and a negative
\* amount, both refused, and an amount that was written.
C17_Witness ==
    /\ accounts[1].status = "active"
    /\ \E p, q, r \in Procs :
        /\ Owns(call[p].userId, 1) /\ Owns(call[q].userId, 1) /\ Owns(call[r].userId, 1)
        /\ call[p].accountId = 1 /\ call[q].accountId = 1 /\ call[r].accountId = 1
        /\ call[p].op = "fundAccount" /\ call[p].amount = 0
        /\ call[q].op = "fundAccount" /\ call[q].amount < 0
        /\ call[r].op = "fundAccount" /\ ret[r].code = "OK"
        /\ ret[p].issues # {} /\ ret[q].issues # {}
    /\ Len(transactions) = Len(SeedTransactions) + 1

\* A login call arrives at slot s in this step.
LoginArrives(s) == logins[s].pc = "idle" /\ logins'[s] # logins[s]

\* The login call of slot s records a failed attempt and throws in this step.
LoginFails(s) == logins[s].pc # "idle" /\ logins'[s].code = "UNAUTHORIZED"

\* The arriving call of slot s is refused by the rate limit and changes nothing.
Refused(s) ==
    /\ logins'[s].pc = "idle"
    /\ logins'[s].code = "TOO_MANY_REQUESTS"
    /\ logins'[s].message = TooManyRequests
    /\ loginAttempts' = loginAttempts
    /\ sessions' = sessions

\* C18: once 5 login attempts for an email have failed inside the window that
\* the first of them began, every login call for that email that arrives while
\* the window lasts is refused with "Too many login attempts", whatever its
\* password, and changes neither the attempt counter nor the sessions.
C18_RateLimit ==
    [][\A s \in Slots :
          ( /\ LoginArrives(s)
            /\ failures[logins'[s].email].count >= MAX_ATTEMPTS
            /\ clock <= failures[logins'[s].email].expires )
          => Refused(s)]_vars

\* C18, amended: the Map's entry of an email counts the failed attempts since
\* the last login of that email that succeeded (or since an expired entry was
\* dropped): a failing call raises it by one, or makes it with count 1 and an
\* expiry one window after that call's now, and only a call that succeeds or
\* that finds it expired removes it.  While the entry holds 5 or more and now
\* is not past its expiry, every login call for the email that arrives is
\* refused with "Too many login attempts", whatever its password, and changes
\* neither the Map nor the sessions.
C18_RateLimitOfCounter ==
    [][/\ \A s \in Slots :
            ( /\ LoginArrives(s)
              /\ loginAttempts[logins'[s].email].count >= MAX_ATTEMPTS
              /\ clock <= loginAttempts[logins'[s].email].expires )
            => Refused(s)
       /\ \A s \in Slots :
            LoginFails(s) =>
                LET e == logins[s].email
                IN  /\ loginAttempts'[e].count = loginAttempts[e].count + 1
                    /\ loginAttempts'[e].expires =
                          IF loginAttempts[e] = NoAttempts
                          THEN logins[s].now + RATE_LIMIT_WINDOW
                          ELSE loginAttempts[e].expires
       /\ \A e \in Emails :
            /\ loginAttempts'[e].count > loginAttempts[e].count =>
                  \E s \in Slots : LoginFails(s) /\ logins[s].email = e
            /\ loginAttempts'[e].count < loginAttempts[e].count =>
                  /\ loginAttempts'[e] = NoAttempts
                  /\ \E s \in Slots :
                        /\ logins'[s].email = e
                        /\ \/ logins[s].pc = "lg_compare" /\ logins'[s].pc = "lg_delete"
                           \/ LoginArrives(s) /\ clock > loginAttempts[e].expires]_vars

\* A call with the user's own password, arriving at the very millisecond the
\* entry of 5 failed attempts expires at, has been refused.
C18_Witness ==
    /\ users = SeedUsers
    /\ \E s \in Slots :
        /\ logins[s].code = "TOO_MANY_REQUESTS"
        /\ logins[s].password = "right"
        /\ loginAttempts[logins[s].email].count = MAX_ATTEMPTS
        /\ clock = loginAttempts[logins[s].email].expires
    /\ latest[1] = NoToken

\* The login calls in flight for user u.
InFlight(u) == {s \in Slots : logins[s].pc # "idle" /\ logins[s].user.id = u}

SessionsOf(u) == SelectSeq(sessions, LAMBDA r : r.userId = u)

\* C19: once every login call in flight for a user has returned, the user has
\* exactly one session row, the one the latest login that succeeded issued;
\* and the session of the other user, who did not log in, is as it was.
C19_SingleSession ==
    /\ \A u \in 1..Len(SeedUsers) :
         (InFlight(u) = {} /\ latest[u] # NoToken)
         => SessionsOf(u) = <<Session(u, latest[u])>>
    /\ SessionsOf(2) = <<Session(2, Sign(2, 0))>>

\* The Luhn checksum as it is defined: counting the digits of a number from
\* the right, every second one is doubled and replaced by the sum of the
\* decimal digits of its double; the number passes when the total is a
\* multiple of 10.  Characters that are not digits do not count.
DigitsAfter(str, i) == Cardinality({j \in (i + 1)..Len(str) : str[j] \in Digits})

LuhnTerm(str, i) ==
    IF str[i] \notin Digits THEN 0
    ELSE IF DigitsAfter(str, i) % 2 = 1
    THEN ((2 * str[i]) \div 10) + ((2 * str[i]) % 10)
    ELSE str[i]

RECURSIVE LuhnTotal(_, _)
LuhnTotal(str, n) == IF n = 0 THEN 0 ELSE LuhnTerm(str, n) + LuhnTotal(str, n - 1)

LuhnValid(str) == LuhnTotal(str, Len(str)) % 10 = 0

\* C20: fundingSchema accepts a fundingSource of type "card" exactly when the
\* digits of its accountNumber pass the Luhn checksum, and refuses it with
\* "Invalid card number" otherwise.
C20_LuhnCard ==
    (parse.state = "parsed" /\ parse.data.type = "card") =>
        /\ parse.issues = {} <=> LuhnValid(parse.data.accountNumber)
        /\ parse.issues = {"Invalid card number"}
              <=> ~LuhnValid(parse.data.accountNumber)

\* A card of MaxCardLen characters was accepted whose number holds a character
\* that is not a digit and a digit whose double is above 9.
C20_Witness ==
    /\ parse.state = "parsed" /\ parse.data.type = "card"
    /\ parse.issues = {}
    /\ LET str == parse.data.accountNumber
       IN  /\ Len(str) = MaxCardLen
           /\ \E i \in 1..Len(str) : str[i] = NonDigit
           /\ \E i \in 1..Len(str) :
                str[i] \in Digits /\ str[i] >= 5 /\ DigitsAfter(str, i) % 2 = 1

\* The columns of an account row that no funding writes.
Identity(a) ==
    [id |-> a.id, userId |-> a.userId, accountNumber |-> a.accountNumber,
     accountType |-> a.accountType, status |-> a.status]

\* C22: a fundAccount call on account A leaves every other account row and
\* every transaction row the table holds as they were, adds no account, and
\* leaves A's id, owner, accountNumber, accountType and status as they were:
\* it changes A's balance and adds one row of A to the log, and the step of
\* the call before its write changes no table.
C22_FundingFrame ==
    [][\A p \in Procs :
          /\ Arriving(p, "fundAccount") => DbUnchanged
          /\ (pc[p] = "fa_write" /\ pc'[p] # "fa_write") =>
               LET A == call[p].accountId
               IN  /\ Len(accounts') = Len(accounts)
                   /\ \A b \in AccountRows : b # A => accounts'[b] = accounts[b]
                   /\ Identity(accounts'[A]) = Identity(accounts[A])
                   /\ accounts'[A].balance # accounts[A].balance
                   /\ \A i \in 1..Len(transactions) : transactions'[i] = transactions[i]
                   /\ \A i \in (Len(transactions) + 1)..Len(transactions') :
                        transactions'[i].accountId = A
                   /\ TransactionsOf(transactions', A) # TransactionsOf(transactions, A)
                   /\ \A b \in AccountRows : b # A =>
                        TransactionsOf(transactions', b) = TransactionsOf(transactions, b)]_vars

\* Both accounts have been funded, each while the table held the other, and
\* each holds its own sum and its own rows.
C22_Witness ==
    /\ Len(accounts) = 2
    /\ \E p, q \in Procs :
        /\ call[p].op = "fundAccount" /\ call[p].accountId = 2 /\ ret[p].code = "OK"
        /\ call[q].op = "fundAccount" /\ call[q].accountId = 1 /\ ret[q].code = "OK"
        /\ ret[q].transaction.id > ret[p].transaction.id
        /\ accounts[2].balance = call[p].amount
        /\ accounts[1].balance = SeedBalance + call[q].amount
        /\ Len(TransactionsOf(transactions, 2)) = 1
    /\ accounts[1].status = "active" /\ accounts[1].accountNumber = 1

\* Call p of createAccount returns or throws in this step.
CreateEnds(p) == pc[p] # "done" /\ pc'[p] = "done" /\ call'[p].op = "createAccount"

\* C23: a createAccount call that succeeds adds exactly one account row, after
\* the rows the table holds, and returns that stored row: its owner is the
\* caller, its type the requested one, its balance 0 and its status "active".
\* A createAccount call that fails adds no row and returns no account, and no
\* other step of a createAccount call changes the table.
C23_CreateResult ==
    [][\A p \in Procs :
          /\ (CreateEnds(p) /\ ret'[p].code = "OK") =>
               LET row == accounts'[Len(accounts')]
               IN  /\ Len(accounts') = Len(accounts) + 1
                   /\ \A a \in AccountRows : accounts'[a] = accounts[a]
                   /\ ret'[p].account = row
                   /\ row.id = Len(accounts')
                   /\ row.userId = call'[p].userId
                   /\ row.accountType = call'[p].accountType
                   /\ row.balance = 0
                   /\ row.status = "active"
          /\ (CreateEnds(p) /\ ret'[p].code # "OK") =>
               /\ accounts' = accounts
               /\ ret'[p].account = NoAccount
          /\ (call'[p].op = "createAccount" /\ pc'[p] # pc[p] /\ pc'[p] # "done") =>
               accounts' = accounts]_vars

\* Three createAccount calls have returned: one with the row it added, one
\* that drew the same number and was refused by the unique column, and one
\* refused with CONFLICT; the table holds the one new row.
C23_Witness ==
    /\ \E p, q, r \in Procs :
        /\ call[p].op = "createAccount" /\ ret[p].code = "OK"
        /\ ret[p].account = accounts[Len(accounts)]
        /\ call[q].op = "createAccount" /\ ret[q] = UniqueFailed
        /\ call[r].op = "createAccount" /\ ret[r].code = "CONFLICT"
    /\ Len(accounts) = 2
    /\ accounts[2].balance = 0 /\ accounts[2].status = "active"

\* C24: for every email, the failed credential checks counted in its running
\* window are at most 5, also when login calls for it are in flight together:
\* while the window of the Map's entry lasts, the entry counts no sixth failure.
C24_AtMostFiveChecks ==
    \A e \in Emails :
        (loginAttempts[e] # NoAttempts /\ clock <= loginAttempts[e].expires)
        => loginAttempts[e].count <= MAX_ATTEMPTS

\* The logout call of slot l returns in this step.
LogoutReturns(l) ==
    /\ logouts'[l] # logouts[l]
    /\ logouts'[l].pc = "idle"
    /\ logouts'[l].success

\* The session rows that hold another token than this one.
OtherTokens(rows, token) == SelectSeq(rows, LAMBDA r : r.token # token)

\* C25: when a logout call whose request carries a session token returns
\* success, the sessions table holds no row with that token, and no step of
\* the call has changed a row of another token.
C25_LogoutRemovesToken ==
    [][\A l \in LogoutSlots :
          /\ (LogoutReturns(l) /\ logouts'[l].token # NoToken) =>
                ~TokenTaken(sessions', logouts'[l].token)
          /\ logouts'[l] # logouts[l] =>
                OtherTokens(sessions', logouts'[l].token)
                    = OtherTokens(sessions, logouts'[l].token)]_vars

\* No two rows of the users table hold the same email, in whatever case.
UniqueEmails(rows) ==
    \A i, j \in 1..Len(rows) :
        Lower(rows[i].email) = Lower(rows[j].email) => i = j

\* A row of the users table holds this email.
HoldsEmail(email) == \E i \in 1..Len(users) : users[i].email = email

\* A signup call arrives at slot s in this step.
SignupArrives(s) == signups[s].pc = "idle" /\ signups'[s] # signups[s]

\* C26: no two user rows hold the same email, also when signup calls with the
\* same email are in flight together.  A signup call for an email that a user
\* row holds as the call begins, in whatever case it was sent, ends with
\* CONFLICT "User already exists" and adds neither a user row nor a session
\* row; a call whose insert meets the email taken since its check ends with
\* the error of the unique column and has added neither.
C26_UniqueEmail ==
    [][/\ UniqueEmails(users) /\ UniqueEmails(users')
       /\ \A s \in SignupSlots :
            /\ (SignupArrives(s) /\ HoldsEmail(Lower(signups'[s].raw))) =>
                  /\ signups'[s].pc = "idle"
                  /\ signups'[s].code = "CONFLICT"
                  /\ signups'[s].message = "User already exists"
                  /\ users' = users /\ sessions' = sessions
            /\ (signups[s].pc = "su_insert" /\ signups'[s] # signups[s]
                  /\ HoldsEmail(signups[s].email)) =>
                  /\ signups'[s].pc = "idle"
                  /\ signups'[s].code = "SQLITE_CONSTRAINT_UNIQUE"
                  /\ signups'[s].user = NoUser /\ signups'[s].token = NoToken
                  /\ users' = users /\ sessions' = sessions]_vars

\* Two signup calls for one email, sent in different case, were in flight
\* together over a table without it: one added the user and a session, the
\* other was refused by the unique column; a call that came after them was
\* refused with CONFLICT.  The table holds the email once.
C26_Witness ==
    /\ \E p, q \in SignupSlots :
        /\ signups[p].code = "CONFLICT" /\ signups[p].raw = "Ann@bank.test"
        /\ signups[q].code = "SQLITE_CONSTRAINT_UNIQUE"
        /\ signups[q].message = "UNIQUE constraint failed: users.email"
        /\ signups[q].email = "ann@bank.test"
    /\ Cardinality({i \in 1..Len(users) : users[i].email = "ann@bank.test"}) = 1
    /\ \E i \in 1..Len(users) :
        /\ users[i].email = "ann@bank.test"
        /\ users[i].id = 3
        /\ \E j \in 1..Len(sessions) : sessions[j].userId = 3

\* C21: after any sequence of fundings the stored balance is the initial
\* balance plus the exact sum of the amounts: the number that the decimal text
\* of that sum stands for, with no rounding drift.
C21_ExactBalance == real.balance = ParseFloat(real.cents)

====
